---- MODULE Spec2Model ----
(***************************************************************************)
(* Model of courier/python/client.py: the Courier RPC client bindings.     *)
(*                                                                         *)
(* A Client owns a transport handle (py_client.PyClient), builds blocking  *)
(* handlers per method name and caches them as instance attributes, and    *)
(* exposes an _AsyncClient whose handlers return concurrent.futures        *)
(* Futures completed by transport callbacks and cancellable by the caller. *)
(***************************************************************************)
EXTENDS Integers, Sequences, FiniteSets, TLC

\* ------------------------------------------------------------------ bounds
MaxNow == 1            \* the clock runs over 0..MaxNow
MaxCalls == 2          \* asynchronous calls issued over a run
MaxClients == 2        \* Client objects constructed over a run
MaxThreads == 2        \* threads looking attributes up on a Client
MaxDirect == 2         \* direct calls made on one Client

\* datetime.datetime.max, in clock ticks
MaxTimestamp == 9

\* ----------------------------------------------------------------- domains
None == "None"
Values == {11, 12}                 \* results a server returns
NoValue == 0                       \* Future._result before completion
Statuses ==
  { [code |-> "UNAVAILABLE", message |-> <<"d", "n">>],
    [code |-> "INTERNAL", message |-> <<"x">>] }
NoError == [type |-> None, text |-> <<>>, code |-> None]
NoStatus == [code |-> None, message |-> <<>>]
\* positional and named arguments of a call
OneInput == { [args |-> <<4, 7>>, kwargs |-> {}] }
Inputs ==
  { [args |-> <<4, 7>>, kwargs |-> {}],
    [args |-> <<1>>, kwargs |-> {<<"k", 1>>}] }
NoInput == [args |-> <<>>, kwargs |-> {}]
MethodNames == { "add", "sub" }
Addresses == { "srv" }
Policies == { None, "round_robin" }
\* call_timeout as the constructor takes it: None, a number of seconds, or a
\* datetime.timedelta
RawTimeouts ==
  { [kind |-> None, v |-> 0],
    [kind |-> "seconds", v |-> 0],
    [kind |-> "seconds", v |-> 2],
    [kind |-> "timedelta", v |-> 0],
    [kind |-> "timedelta", v |-> 1] }
NoTimeout == [kind |-> None, v |-> 0]

Min(a, b) == IF a <= b THEN a ELSE b

\* Python truth value of None / int / float / timedelta
Truthy(t) == t.kind # None /\ t.v # 0

\* ---------------------------------------------------------- pure functions
\* a sequence m occurs in sequence t
Contains(t, m) ==
  \E i \in 0..(Len(t) - Len(m)) : SubSeq(t, i + 1, i + Len(m)) = m

translate_status_nocode(s) ==
  [type |-> "StatusNotOk", text |-> s.message, code |-> None]

translate_status(s) ==
  [type |-> "StatusNotOk", text |-> s.message, code |-> s.code]

_calculate_deadline_nomax(timeout, propagate_deadline, t_now) ==
  IF Truthy(timeout) THEN t_now + timeout.v ELSE t_now

_calculate_deadline(timeout, propagate_deadline, t_now) ==
  LET deadline == MaxTimestamp
  IN  IF Truthy(timeout)
      THEN LET deadline_timeout == t_now + timeout.v
           IN  Min(deadline, deadline_timeout)
      ELSE deadline

\* ------------------------------------------- concurrent.futures.Future
\* The standard-library future the asynchronous handler creates; every
\* operation below runs under the future's lock.
NewFuture ==
  [state |-> "PENDING", result |-> NoValue, exception |-> NoError,
   done_callbacks |-> <<>>]

Terminal(f) == f.state \in {"CANCELLED", "FINISHED"}
cancelled(f) == f.state = "CANCELLED"
Fulfilled(f) == f.state = "FINISHED" /\ f.exception = NoError
Failed(f) == f.state = "FINISHED" /\ f.exception # NoError

\* f.set_result(r): raises InvalidStateError on a terminal future
Future_set_result(f, r) ==
  IF Terminal(f)
  THEN [f |-> f, raised |-> TRUE]
  ELSE [f |-> [f EXCEPT !.state = "FINISHED", !.result = r], raised |-> FALSE]

\* f.set_exception(e): raises InvalidStateError on a terminal future
Future_set_exception(f, e) ==
  IF Terminal(f)
  THEN [f |-> f, raised |-> TRUE]
  ELSE [f |-> [f EXCEPT !.state = "FINISHED", !.exception = e], raised |-> FALSE]

\* f.cancel(): False on a finished future, True on a cancelled one, else the
\* future becomes cancelled and its callbacks are to be invoked
Future_cancel(f) ==
  IF f.state = "FINISHED"
  THEN [f |-> f, ret |-> FALSE, notify |-> FALSE]
  ELSE IF cancelled(f)
       THEN [f |-> f, ret |-> TRUE, notify |-> FALSE]
       ELSE [f |-> [f EXCEPT !.state = "CANCELLED"], ret |-> TRUE, notify |-> TRUE]

\* ------------------------------------------------- one asynchronous call
\* The closure state of one invocation of _AsyncClient._build_handler.call,
\* with the threads that act on it: the transport's callback thread (cb) and
\* the caller's cancelling thread (user).
NoRequest ==
  [method |-> None, args |-> <<>>, kwargs |-> {}, wait_for_ready |-> FALSE,
   deadline |-> 0, compress |-> FALSE, chunk_tensors |-> FALSE]

\* what the transport's latest callback delivered, and the state it found the
\* future in
NotDelivered == [kind |-> None, value |-> NoValue, status |-> NoStatus,
                 found |-> None]

UnusedCall ==
  [pc |-> "unused", client |-> 0, handle |-> 0, f |-> NewFuture,
   request |-> NoRequest, at |-> 0, shut |-> 0, canceller |-> 0,
   fired |-> FALSE,
   delivered |-> NotDelivered, cb |-> "idle", cbRaised |-> FALSE,
   user |-> "idle", cancelRet |-> None, recancelled |-> FALSE]

\* def done_callback(f): if f.cancelled(): canceller.Cancel()
\* toks maps each cancellation token of the transport to the number of times
\* Cancel was invoked on it; the result is the updated map.
done_callback_never(c, toks) == toks

done_callback_always(c, toks) == [toks EXCEPT ![c.canceller] = @ + 1]

done_callback_all(c, toks) ==
  IF cancelled(c.f) THEN [k \in DOMAIN toks |-> toks[k] + 1] ELSE toks

done_callback(c, toks) ==
  IF cancelled(c.f) THEN [toks EXCEPT ![c.canceller] = @ + 1] ELSE toks

\* Future._invoke_callbacks: every registered callback is called with f
_invoke_callbacks(c, toks) ==
  IF c.f.done_callbacks = <<>> THEN toks ELSE done_callback(c, toks)

\* f.add_done_callback(done_callback): registered while the future is
\* pending, called at once when it is already terminal
add_done_callback(c, toks) ==
  IF Terminal(c.f)
  THEN [c |-> c, toks |-> done_callback(c, toks)]
  ELSE [c |-> [c EXCEPT !.f.done_callbacks = Append(@, "done_callback")],
        toks |-> toks]

\* def set_result(r), the transport's onSuccess
set_result_noexcept(c, r) ==
  LET t == Future_set_result(c.f, r)
  IN  IF t.raised
      THEN [c EXCEPT !.cbRaised = TRUE]
      ELSE [c EXCEPT !.f = t.f, !.cb = "notify"]

set_result_force(c, r) ==
  [c EXCEPT !.f = [c.f EXCEPT !.state = "FINISHED", !.result = r],
            !.cb = "notify"]

set_result_none(c, r) ==
  LET t == Future_set_result(c.f, NoValue)
  IN  IF t.raised THEN c ELSE [c EXCEPT !.f = t.f, !.cb = "notify"]

set_result(c, r) ==
  LET t == Future_set_result(c.f, r)
  IN  IF t.raised
      THEN c    \* except futures.InvalidStateError: pass
      ELSE [c EXCEPT !.f = t.f, !.cb = "notify"]

\* def set_exception(s), the transport's onFailure
set_exception_dropped(c, s) == c

set_exception(c, s) ==
  LET t == Future_set_exception(c.f, translate_status(s))
  IN  IF t.raised
      THEN c    \* except futures.InvalidStateError: pass
      ELSE [c EXCEPT !.f = t.f, !.cb = "notify"]

\* --------------------------------------------------------- Client objects
\* The arguments of Client.__init__
CtorArgs ==
  [server_address : Addresses, compress : BOOLEAN, call_timeout : RawTimeouts,
   wait_for_ready : BOOLEAN, chunk_tensors : BOOLEAN,
   load_balancing_policy : Policies, propagate_deadline : BOOLEAN]

\* str(server_address); addresses are strings already
str(x) == x

\* datetime.timedelta(seconds=x)
timedelta(x) == [kind |-> "timedelta", v |-> x]

\* lines 199-205: the timeout kept by the client
NormalTimeout(call_timeout) ==
  IF Truthy(call_timeout)
  THEN IF call_timeout.kind = "timedelta"
       THEN call_timeout
       ELSE timedelta(call_timeout.v)
  ELSE NoTimeout

\* _AsyncClient.__init__
AsyncClient__init___swapped(client, wait_for_ready, call_timeout, compress, chunk_tensors, propagate_deadline) ==
  [_client |-> client, _wait_for_ready |-> compress,
   _call_timeout |-> call_timeout, _compress |-> wait_for_ready,
   _chunk_tensors |-> chunk_tensors,
   _propagate_deadline |-> propagate_deadline]

AsyncClient__init__(client, wait_for_ready, call_timeout, compress, chunk_tensors, propagate_deadline) ==
  [_client |-> client, _wait_for_ready |-> wait_for_ready,
   _call_timeout |-> call_timeout, _compress |-> compress,
   _chunk_tensors |-> chunk_tensors,
   _propagate_deadline |-> propagate_deadline]

\* Client.__init__ with the transport handle py_client.PyClient returned;
\* given keeps the arguments of the construction
Client__init__(a, handle) ==
  [exists |-> TRUE, alive |-> TRUE, given |-> a,
   _init_args |-> <<a.server_address, a.compress, a.call_timeout,
                    a.wait_for_ready>>,
   _address |-> str(a.server_address),
   _compress |-> a.compress,
   _client |-> handle,
   _call_timeout |-> NormalTimeout(a.call_timeout),
   _wait_for_ready |-> a.wait_for_ready,
   _chunk_tensors |-> a.chunk_tensors,
   _async_client |->
     AsyncClient__init__(handle, a.wait_for_ready,
                         NormalTimeout(a.call_timeout), a.compress,
                         a.chunk_tensors, a.propagate_deadline),
   _propagate_deadline |-> a.propagate_deadline,
   copyOf |-> 0]

DefaultArgs ==
  [server_address |-> "srv", compress |-> FALSE, call_timeout |-> NoTimeout,
   wait_for_ready |-> TRUE, chunk_tensors |-> FALSE,
   load_balancing_policy |-> None, propagate_deadline |-> TRUE]

NoClient == [Client__init__(DefaultArgs, 0) EXCEPT !.exists = FALSE,
                                                   !.alive = FALSE]

\* py_client.PyClient(address, load_balancing_policy): a new transport handle
PyClient(address, load_balancing_policy) ==
  [address |-> address, load_balancing_policy |-> load_balancing_policy,
   shutdowns |-> 0]

\* Client.__reduce__: the class is called with these positional arguments
__reduce__(cl, tr) ==
  [DefaultArgs EXCEPT !.server_address = cl._init_args[1],
                      !.compress = cl._init_args[2],
                      !.call_timeout = cl._init_args[3],
                      !.wait_for_ready = cl._init_args[4]]

\* --------------------------------------------------- synchronous dispatch
\* What py_client.PyClient.PyCall does with a request: it returns a value or
\* throws StatusThrown carrying a status
Outcomes ==
  [kind : {"return"}, value : Values, status : {NoStatus}]
  \cup [kind : {"throw"}, value : {NoValue}, status : Statuses]
OneOutcome == { [kind |-> "return", value |-> 11, status |-> NoStatus] }
TwoOutcomes ==
  { [kind |-> "return", value |-> 11, status |-> NoStatus],
    [kind |-> "throw", value |-> NoValue,
     status |-> [code |-> "UNAVAILABLE", message |-> <<"d", "n">>]] }
NoOutcome == [kind |-> None, value |-> NoValue, status |-> NoStatus]

NoResult == [kind |-> None, value |-> NoValue, error |-> NoError,
             cause |-> None]

\* exception_handler(func): what the wrapped call gives its caller when the
\* wrapped function ends with outcome o
exception_handler(o) ==
  IF o.kind = "throw"
  THEN \* except StatusThrown as e: raise translate_status(e.status) from e
       [kind |-> "raise", value |-> NoValue,
        error |-> translate_status(o.status), cause |-> "StatusThrown"]
  ELSE [kind |-> "return", value |-> o.value, error |-> NoError,
        cause |-> None]

\* what the try block of an enclosing exception_handler sees when the wrapped
\* function ended with result r: an error exception_handler raised is a
\* StatusNotOk, the class StatusThrown names too, so it is caught, and st is
\* what reading its status attribute gives
AsOutcome(r, st) ==
  IF r.kind = "raise"
  THEN [kind |-> "throw", value |-> NoValue, status |-> st]
  ELSE [kind |-> "return", value |-> r.value, status |-> NoStatus]

AttributeError ==
  [kind |-> "raise", value |-> NoValue,
   error |-> [type |-> "AttributeError", text |-> <<>>, code |-> None],
   cause |-> None]

\* Client.__call__, lines 269-271: exception_handler around a call of the
\* handler _build_handler('__call__') returns, which line 237 wraps already.
\* The error the inner wrapper raises was built by translate_status, which
\* sets its text and code and no status; the outer wrapper reads e.status of
\* it. has_status tells whether the exception class supplies that attribute
\* (holding the status most recently thrown); without it the read raises
\* AttributeError.
Client__call__(o, has_status) ==
  LET inner == exception_handler(o)
  IN  IF inner.kind = "raise"
      THEN IF has_status
           THEN [exception_handler(AsOutcome(inner, o.status))
                   EXCEPT !.cause = "StatusNotOk"]
           ELSE AttributeError
      ELSE exception_handler(AsOutcome(inner, NoStatus))

\* calling an attribute that is no handler: the address property gives a str
TypeError ==
  [kind |-> "raise", value |-> NoValue,
   error |-> [type |-> "TypeError", text |-> <<>>, code |-> None],
   cause |-> None]

\* Client._build_handler(method).func(*args, **kwargs), lines 238-251: the
\* request handed to PyCall
func(cl, method, in, t_now) ==
  LET deadline == _calculate_deadline(cl._call_timeout,
                                      cl._propagate_deadline, t_now)
  IN  [method |-> method, args |-> in.args, kwargs |-> in.kwargs,
       wait_for_ready |-> cl._wait_for_ready, deadline |-> deadline,
       compress |-> cl._compress, chunk_tensors |-> cl._chunk_tensors]

\* attributes found by normal lookup on every Client: the properties
ClassAttrs == { "address", "futures" }
AttrNames == MethodNames \cup { "address" }

\* one invocation made on a Client: the attribute name used and the caller's
\* arguments, the time, the PyCall request if one was dispatched (with the
\* number of Shutdown calls its handle had seen), and what the caller got
NoSync == [client |-> 0, handle |-> 0, handler |-> 0, name |-> None,
           in |-> NoInput, at |-> 0, shut |-> 0, request |-> NoRequest,
           outcome |-> NoOutcome, result |-> NoResult]
NoLookup == [kind |-> None, id |-> 0]
IdleThread == [pc |-> "idle", client |-> 0, name |-> None, func |-> 0,
               res |-> NoLookup]

\* ------------------------------------------------------------------ state
VARIABLES
  now,          \* the wall clock
  clients,      \* Client objects, by slot
  transports,   \* the transport handles created so far, in creation order
  attrs,        \* per Client, the handlers set as instance attributes
  handlers,     \* the synchronous handlers built so far, in creation order
  threads,      \* caller threads looking a name up and calling the result
  returned,     \* per Client and name, what completed lookups returned
  lastSync,     \* the most recent PyCall: its request and what the caller got
  calls,        \* asynchronous calls, by slot
  tokens,       \* cancellation tokens: times Cancel was invoked on each
  probe         \* one evaluation of _calculate_deadline: inputs and result

vars == <<now, clients, transports, attrs, handlers, threads, returned,
          lastSync, calls, tokens, probe>>

conn == <<clients, transports>>
sync == <<attrs, handlers, threads, returned, lastSync>>
async == <<calls, tokens>>

\* the deadline the calling context inherited, if any
NoDeadline == [kind |-> None, v |-> 0]
NoProbe == [timeout |-> NoTimeout, propagate_deadline |-> TRUE,
            inherited |-> NoDeadline, at |-> 0, deadline |-> 0,
            done |-> FALSE]

ClientIds == 1..MaxClients
CallIds == 1..MaxCalls
ThreadIds == 1..MaxThreads

\* the state after Client(**a) for some a of argset
InitClient(argset) ==
  /\ now = 0
  /\ \E a \in argset :
       /\ clients = [c \in ClientIds |->
                       IF c = 1 THEN Client__init__(a, 1) ELSE NoClient]
       /\ transports = << PyClient(str(a.server_address),
                                   a.load_balancing_policy) >>
  /\ attrs = [c \in ClientIds |-> [n \in AttrNames |-> 0]]
  /\ handlers = << >>
  /\ threads = [t \in ThreadIds |-> IdleThread]
  /\ returned = [c \in ClientIds |-> [n \in AttrNames |-> {}]]
  /\ lastSync = NoSync
  /\ calls = [k \in CallIds |-> UnusedCall]
  /\ tokens = [k \in CallIds |-> 0]

InitWith(argset) == InitClient(argset) /\ probe = NoProbe

\* ----------------------------------------------------- connection lifecycle
Tick ==
  /\ now < MaxNow
  /\ now' = now + 1
  /\ UNCHANGED <<conn, sync, async, probe>>

\* PyClient.Shutdown() on a handle
Shutdown_twice(tr) == [tr EXCEPT !.shutdowns = @ + 2]

Shutdown(tr) == [tr EXCEPT !.shutdowns = @ + 1]

\* Client.__del__: the object is destroyed once nothing refers to it
Client__del__(c) ==
  /\ clients[c].exists /\ clients[c].alive
  /\ \A t \in ThreadIds : threads[t].client # c
  /\ clients' = [clients EXCEPT ![c].alive = FALSE]
  /\ transports' = [transports EXCEPT ![clients[c]._client] = Shutdown(@)]
  /\ UNCHANGED <<now, sync, async, probe>>

\* pickle round trip: cls(*args) with cls, args = client.__reduce__()
Reconstruct(c, d) ==
  /\ clients[c].exists /\ clients[c].alive
  /\ ~ clients[d].exists
  /\ \A e \in ClientIds : e < d => clients[e].exists
  /\ LET a == __reduce__(clients[c], transports[clients[c]._client])
         h == Len(transports) + 1
     IN  /\ clients' = [clients EXCEPT
                          ![d] = [Client__init__(a, h) EXCEPT !.copyOf = c]]
         /\ transports' = Append(transports,
                                 PyClient(str(a.server_address),
                                          a.load_balancing_policy))
  /\ UNCHANGED <<now, sync, async, probe>>

\* ------------------------------------------------ attribute lookup, calls
HandlerRes(h) == [kind |-> "handler", id |-> h]

\* Client._build_handler(method): a new closure over (self, method)
Client_build_handler(c, method) == [client |-> c, method |-> method]

\* the handlers built for name n on client c
Built(c, n) ==
  { i \in 1..Len(handlers) : handlers[i] = Client_build_handler(c, n) }

\* normal attribute lookup of client.<name>; Client.__getattr__ is entered
\* only when it finds nothing
Lookup(t, c, name) ==
  /\ threads[t].pc = "idle"
  /\ clients[c].exists /\ clients[c].alive
  /\ IF name \in ClassAttrs
     THEN /\ threads' = [threads EXCEPT
                           ![t] = [IdleThread EXCEPT
                                     !.pc = "holding", !.client = c,
                                     !.name = name,
                                     !.res = [kind |-> name, id |-> 0]]]
          /\ returned' = [returned EXCEPT
                            ![c][name] = @ \cup {[kind |-> name, id |-> 0]}]
     ELSE IF attrs[c][name] # 0
     THEN /\ threads' = [threads EXCEPT
                           ![t] = [IdleThread EXCEPT
                                     !.pc = "holding", !.client = c,
                                     !.name = name,
                                     !.res = HandlerRes(attrs[c][name])]]
          /\ returned' = [returned EXCEPT
                            ![c][name] = @ \cup {HandlerRes(attrs[c][name])}]
     ELSE /\ threads' = [threads EXCEPT
                           ![t] = [IdleThread EXCEPT
                                     !.pc = "getattr", !.client = c,
                                     !.name = name]]
          /\ UNCHANGED returned
  /\ UNCHANGED <<now, conn, attrs, handlers, lastSync, async, probe>>

\* Client.__getattr__, line 265: func = self._build_handler(method)
GetattrBuild(t) ==
  /\ threads[t].pc = "getattr"
  /\ handlers' = Append(handlers,
                        Client_build_handler(threads[t].client,
                                             threads[t].name))
  /\ threads' = [threads EXCEPT ![t].pc = "built",
                                ![t].func = Len(handlers) + 1]
  /\ UNCHANGED <<now, conn, attrs, returned, lastSync, async, probe>>

\* setattr(self, method, func)
setattr_skip(a, c, name, h) == a

setattr_all(a, c, name, h) == [a EXCEPT ![c] = [n \in AttrNames |-> h]]

setattr(a, c, name, h) == [a EXCEPT ![c][name] = h]

\* Client.__getattr__, lines 266-267: setattr(self, method, func); return func
GetattrSet(t) ==
  LET th == threads[t]
  IN  /\ th.pc = "built"
      /\ attrs' = setattr(attrs, th.client, th.name, th.func)
      /\ threads' = [threads EXCEPT ![t].pc = "holding",
                                    ![t].res = HandlerRes(th.func)]
      /\ returned' = [returned EXCEPT
                        ![th.client][th.name] = @ \cup {HandlerRes(th.func)}]
      /\ UNCHANGED <<now, conn, handlers, lastSync, async, probe>>

\* the thread calls the handler it looked up: handler(*args, **kwargs); the
\* transport answers the PyCall with outcome o
Invoke(t, in, o) ==
  LET th == threads[t]
      h == handlers[th.res.id]
      cl == clients[h.client]
  IN  /\ th.pc = "holding"
      /\ th.res.kind = "handler"
      /\ lastSync' = [client |-> h.client, handle |-> cl._client,
                      handler |-> th.res.id,
                      name |-> th.name, in |-> in, at |-> now,
                      shut |-> transports[cl._client].shutdowns,
                      request |-> func(cl, h.method, in, now),
                      outcome |-> o,
                      result |-> exception_handler(o)]
      /\ UNCHANGED <<now, conn, attrs, handlers, threads, returned, async, probe>>

\* the thread calls what the lookup gave when that is no handler: the value
\* of the address property is a str, calling it raises TypeError and no
\* request reaches the transport
CallAttribute(t, in) ==
  LET th == threads[t]
  IN  /\ th.pc = "holding"
      /\ th.res.kind = "address"
      /\ lastSync' = [NoSync EXCEPT
                        !.client = th.client,
                        !.handle = clients[th.client]._client,
                        !.name = th.name, !.in = in, !.at = now,
                        !.result = TypeError]
      /\ UNCHANGED <<now, conn, attrs, handlers, threads, returned, async, probe>>

\* client(*args, **kwargs), Client.__call__: a handler for '__call__' is
\* built and called; nothing is set on the Client
DirectCall(c, in, o, has_status) ==
  LET cl == clients[c]
  IN  /\ cl.exists /\ cl.alive
      /\ Cardinality(Built(c, "__call__")) < MaxDirect
      /\ o.kind = "return" => has_status
      /\ handlers' = Append(handlers, Client_build_handler(c, "__call__"))
      /\ lastSync' = [client |-> c, handle |-> cl._client,
                      handler |-> Len(handlers) + 1,
                      name |-> "__call__", in |-> in, at |-> now,
                      shut |-> transports[cl._client].shutdowns,
                      request |-> func(cl, "__call__", in, now),
                      outcome |-> o,
                      result |-> Client__call__(o, has_status)]
      /\ UNCHANGED <<now, conn, attrs, threads, returned, async, probe>>

\* the thread drops what it looked up
Release(t) ==
  /\ threads[t].pc = "holding"
  /\ threads' = [threads EXCEPT ![t] = IdleThread]
  /\ UNCHANGED <<now, conn, attrs, handlers, returned, lastSync, async, probe>>

\* ------------------------------------------------- asynchronous dispatch
\* _AsyncClient._build_handler(method).call(*args, **kwargs), lines 104-134:
\* the future is created, the deadline computed and AsyncPyCall is handed
\* the request; tok is the cancellation token AsyncPyCall returns
call(ac, method, in, t_now, tok) ==
  LET deadline == _calculate_deadline(ac._call_timeout,
                                      ac._propagate_deadline, t_now)
  IN  [UnusedCall EXCEPT
         !.pc = "dispatched",
         !.handle = ac._client,
         !.f = NewFuture,
         !.at = t_now,
         !.request = [method |-> method, args |-> in.args,
                      kwargs |-> in.kwargs,
                      wait_for_ready |-> ac._wait_for_ready,
                      deadline |-> deadline,
                      compress |-> ac._compress,
                      chunk_tensors |-> ac._chunk_tensors],
         !.canceller = tok]

\* client.futures.<method>(*args, **kwargs) up to the return of AsyncPyCall
AsyncCall(k, c, method, in) ==
  /\ calls[k].pc = "unused"
  /\ \A j \in CallIds : j < k => calls[j].pc # "unused"
  /\ clients[c].exists /\ clients[c].alive
  /\ calls' = [calls EXCEPT
                 ![k] = [call(clients[c]._async_client, method, in, now, k)
                           EXCEPT !.client = c,
                                  !.shut =
                                 transports[clients[c]._async_client._client].shutdowns]]
  /\ UNCHANGED <<now, conn, sync, tokens, probe>>

\* af = client.futures: the thread keeps the _AsyncClient the property
\* returns and no reference to the Client
GetFutures(t, c) ==
  /\ threads[t].pc = "idle"
  /\ clients[c].exists /\ clients[c].alive
  /\ threads' = [threads EXCEPT
                   ![t] = [IdleThread EXCEPT
                             !.pc = "holding", !.name = "futures",
                             !.res = [kind |-> "futures", id |-> c]]]
  /\ UNCHANGED <<now, conn, attrs, handlers, returned, lastSync, async, probe>>

\* af.<method>(*args, **kwargs) on the _AsyncClient a thread holds, up to
\* the return of AsyncPyCall on the handle the _AsyncClient was given
FuturesCall(k, t, method, in) ==
  LET c == threads[t].res.id
  IN  /\ threads[t].pc = "holding"
      /\ threads[t].res.kind = "futures"
      /\ calls[k].pc = "unused"
      /\ \A j \in CallIds : j < k => calls[j].pc # "unused"
      /\ calls' = [calls EXCEPT
                     ![k] = [call(clients[c]._async_client, method, in, now, k)
                               EXCEPT !.client = c,
                                      !.shut =
                                 transports[clients[c]._async_client._client].shutdowns]]
      /\ UNCHANGED <<now, conn, sync, tokens, probe>>

\* lines 136-141: f.add_done_callback(done_callback); return f
AddDoneCallback(k) ==
  /\ calls[k].pc = "dispatched"
  /\ LET r == add_done_callback(calls[k], tokens)
     IN  /\ calls' = [calls EXCEPT ![k] = [r.c EXCEPT !.pc = "returned"]]
         /\ tokens' = r.toks
  /\ UNCHANGED <<now, conn, sync, probe>>

\* the transport invokes onSuccess(v) on its own thread; it invokes one of
\* onSuccess and onFailure, at most once per call
OnSuccess(k, v) ==
  /\ calls[k].pc # "unused"
  /\ calls[k].cb = "idle"
  /\ ~ calls[k].fired
  /\ calls' = [calls EXCEPT
                 ![k] = [set_result(@, v) EXCEPT
                           !.fired = TRUE,
                           !.delivered = [kind |-> "success", value |-> v,
                                          status |-> NoStatus,
                                          found |-> calls[k].f.state]]]
  /\ UNCHANGED <<now, conn, sync, tokens, probe>>

\* the transport invokes onFailure(s) on its own thread
OnFailure(k, s) ==
  /\ calls[k].pc # "unused"
  /\ calls[k].cb = "idle"
  /\ ~ calls[k].fired
  /\ calls' = [calls EXCEPT
                 ![k] = [set_exception(@, s) EXCEPT
                           !.fired = TRUE,
                           !.delivered = [kind |-> "failure",
                                          value |-> NoValue, status |-> s,
                                          found |-> calls[k].f.state]]]
  /\ UNCHANGED <<now, conn, sync, tokens, probe>>

\* the completing thread leaves the future's lock and runs its callbacks
CallbackNotify(k) ==
  /\ calls[k].cb = "notify"
  /\ tokens' = _invoke_callbacks(calls[k], tokens)
  /\ calls' = [calls EXCEPT ![k].cb = "idle"]
  /\ UNCHANGED <<now, conn, sync, probe>>

\* the caller, holding the returned future, calls f.cancel(); recancelled
\* tells that cancel() has been called on the future when it was cancelled
\* already
Cancel(k) ==
  /\ calls[k].pc = "returned"
  /\ calls[k].user = "idle"
  /\ LET t == Future_cancel(calls[k].f)
     IN  calls' = [calls EXCEPT
                     ![k].f = t.f,
                     ![k].cancelRet = IF t.ret THEN "True" ELSE "False",
                     ![k].recancelled = @ \/ cancelled(calls[k].f),
                     ![k].user = IF t.notify THEN "notify" ELSE "idle"]
  /\ UNCHANGED <<now, conn, sync, tokens, probe>>

\* the cancelling thread leaves the future's lock and runs its callbacks
CancelNotify(k) ==
  /\ calls[k].user = "notify"
  /\ tokens' = _invoke_callbacks(calls[k], tokens)
  /\ calls' = [calls EXCEPT ![k].user = "idle"]
  /\ UNCHANGED <<now, conn, sync, probe>>

\* -------------------------------------------------- deadline calculation
\* one evaluation of _calculate_deadline at time probe.at, in a calling
\* context whose own deadline is probe.inherited
ComputeDeadline ==
  /\ ~ probe.done
  /\ probe' = [probe EXCEPT
                 !.deadline = _calculate_deadline(probe.timeout,
                                                  probe.propagate_deadline,
                                                  probe.at),
                 !.done = TRUE]
  /\ UNCHANGED <<now, conn, sync, async>>

\* ------------------------------------------------------- specifications
\* constructor arguments that differ from the defaults in one argument, and
\* one that differs in all
Configs ==
  { DefaultArgs,
    [DefaultArgs EXCEPT !.compress = TRUE],
    [DefaultArgs EXCEPT !.wait_for_ready = FALSE],
    [DefaultArgs EXCEPT !.chunk_tensors = TRUE],
    [DefaultArgs EXCEPT !.load_balancing_policy = "round_robin"],
    [DefaultArgs EXCEPT !.propagate_deadline = FALSE],
    [server_address |-> "srv", compress |-> TRUE,
     call_timeout |-> [kind |-> "seconds", v |-> 2],
     wait_for_ready |-> FALSE, chunk_tensors |-> TRUE,
     load_balancing_policy |-> "round_robin", propagate_deadline |-> FALSE] }
  \cup { [DefaultArgs EXCEPT !.call_timeout = t] : t \in RawTimeouts }

\* one caller thread uses the names of ns: looks them up and calls them
Caller(ns, ins, outs) ==
  \/ \E c \in ClientIds, n \in ns : Lookup(1, c, n)
  \/ GetattrBuild(1)
  \/ GetattrSet(1)
  \/ \E in \in ins, o \in outs : Invoke(1, in, o)
  \/ Release(1)

\* the asynchronous calls of slots ks and the threads acting on them
Async(ks, ms, ins) ==
  \/ \E k \in ks, c \in ClientIds, m \in ms, in \in ins :
       AsyncCall(k, c, m, in)
  \/ \E k \in ks : AddDoneCallback(k)
  \/ \E k \in ks, v \in Values : OnSuccess(k, v)
  \/ \E k \in ks, s \in Statuses : OnFailure(k, s)
  \/ \E k \in ks : CallbackNotify(k)
  \/ \E k \in ks : Cancel(k)
  \/ \E k \in ks : CancelNotify(k)

\* the connection over its lifetime, used by one caller thread
Init == InitWith(CtorArgs)

Next ==
  \/ \E c \in ClientIds : Client__del__(c)
  \/ \E c, d \in ClientIds : Reconstruct(c, d)
  \/ Caller({"add"}, Inputs, OneOutcome)

Spec == Init /\ [][Next]_vars

\* the two dispatch paths of one connection: a caller thread's synchronous
\* calls and one asynchronous call
InitCalls == InitWith(Configs)

NextCalls ==
  \/ Tick
  \/ Caller(MethodNames, OneInput, TwoOutcomes)
  \/ Async({1}, {"add"}, OneInput)

SpecCalls == InitCalls /\ [][NextCalls]_vars

\* one connection called by attribute and directly, under every name the
\* server exposes
InitDispatch == InitWith({DefaultArgs})

NextDispatch ==
  \/ Caller(AttrNames, OneInput, Outcomes)
  \/ \E in \in OneInput : CallAttribute(1, in)
  \/ \E c \in ClientIds, in \in Inputs, o \in Outcomes, hs \in BOOLEAN :
       DirectCall(c, in, o, hs)

SpecDispatch == InitDispatch /\ [][NextDispatch]_vars

\* a connection used, its asynchronous client handed out, and destroyed
InitTeardown == InitWith({DefaultArgs})

NextTeardown ==
  \/ \E c \in ClientIds : Client__del__(c)
  \/ \E c \in ClientIds : GetFutures(1, c)
  \/ \E in \in OneInput : FuturesCall(1, 1, "add", in)
  \/ Caller({"add"}, OneInput, OneOutcome)
  \/ Async({1}, {"add"}, OneInput)

SpecTeardown == InitTeardown /\ [][NextTeardown]_vars

\* the asynchronous dispatcher: concurrent calls, completions, cancellations
InitAsync == InitWith({DefaultArgs})

NextAsync == Async(CallIds, {"add"}, OneInput)

SpecAsync == InitAsync /\ [][NextAsync]_vars

\* several threads look names up on one connection at the same time
InitLookup == InitWith({DefaultArgs})

NextLookup ==
  \/ \E t \in ThreadIds, c \in ClientIds, n \in MethodNames : Lookup(t, c, n)
  \/ \E t \in ThreadIds : GetattrBuild(t)
  \/ \E t \in ThreadIds : GetattrSet(t)
  \/ \E t \in ThreadIds : Release(t)

SpecLookup == InitLookup /\ [][NextLookup]_vars

\* _calculate_deadline over its inputs
Timeouts == { NoTimeout, timedelta(0), timedelta(1), timedelta(2) }
Deadlines ==
  { NoDeadline } \cup { [kind |-> "datetime", v |-> d] : d \in 0..(MaxNow + 2) }

InitDeadline ==
  /\ InitClient({DefaultArgs})
  /\ \E t \in Timeouts, p \in BOOLEAN, d \in Deadlines, n \in 0..MaxNow :
       probe = [NoProbe EXCEPT !.timeout = t, !.propagate_deadline = p,
                               !.inherited = d, !.at = n]

NextDeadline == ComputeDeadline

SpecDeadline == InitDeadline /\ [][NextDeadline]_vars

\* ------------------------------------------------------------- properties
UsedCalls == { k \in CallIds : calls[k].pc # "unused" }
Outcome(f) == <<f.state, f.result, f.exception>>

\* C1: a future makes at most one transition out of the pending state: once
\* it is fulfilled, failed or cancelled, no step of any thread changes its
\* state, its value or its error.
C1_TerminalIsFinal ==
  [][\A k \in CallIds :
       Terminal(calls[k].f) => Outcome(calls'[k].f) = Outcome(calls[k].f)]_vars

\* a cancelled future on which the transport's callback then ran, next to a
\* fulfilled future on which cancel was then attempted
C1_Witness ==
  \E j, k \in CallIds :
    /\ cancelled(calls[j].f) /\ calls[j].fired /\ calls[j].cb = "idle"
    /\ Fulfilled(calls[k].f) /\ calls[k].cancelRet = "False"

\* C2: once cancel() has cancelled a pending future, the future is cancelled
\* in every later state, carrying neither value nor error, and no callback
\* the transport invokes raises into the transport's thread.
C2_CancelledStays ==
  \A k \in CallIds :
    /\ ~ calls[k].cbRaised
    /\ calls[k].cancelRet = "True" =>
         Outcome(calls[k].f) = <<"CANCELLED", NoValue, NoError>>

\* the transport's callback found the future already cancelled, and returned
C2_Witness ==
  \E k \in CallIds :
    /\ calls[k].delivered.found = "CANCELLED"
    /\ calls[k].cb = "idle"
    /\ calls[k].user = "idle"

\* C3: when onSuccess(v) finds the future pending, the future is fulfilled
\* with v in every later state, whatever cancellations follow.
C3_SuccessFirst ==
  \A k \in CallIds :
    (calls[k].delivered.kind = "success"
       /\ calls[k].delivered.found = "PENDING") =>
      Outcome(calls[k].f) = <<"FINISHED", calls[k].delivered.value, NoError>>

\* onSuccess fulfilled the future and a later cancel() returned False
C3_Witness ==
  \E k \in CallIds :
    /\ calls[k].delivered.kind = "success"
    /\ calls[k].delivered.found = "PENDING"
    /\ calls[k].cancelRet = "False"
    /\ calls[k].user = "idle"

\* C4: when cancel() on a pending future has returned, the future is
\* cancelled and Cancel has been invoked on the token the transport returned
\* for that call.
C4_CancelForwarded ==
  \A k \in CallIds :
    (calls[k].cancelRet = "True" /\ calls[k].user = "idle") =>
      /\ cancelled(calls[k].f)
      /\ tokens[k] >= 1

\* the second call was cancelled while pending and cancel() has returned
C4_Witness ==
  /\ calls[2].cancelRet = "True"
  /\ calls[2].user = "idle"
  /\ ~ calls[2].fired
  /\ ~ cancelled(calls[1].f)

\* C5: a failure status (C, M) the transport reports first reaches the
\* caller as an error with code C and text containing M: the synchronous
\* call raises it, the asynchronous call's future is failed with it.
C5_FailureSurfaces ==
  /\ lastSync.outcome.kind = "throw" =>
       /\ lastSync.result.kind = "raise"
       /\ lastSync.result.error.code = lastSync.outcome.status.code
       /\ Contains(lastSync.result.error.text, lastSync.outcome.status.message)
  /\ \A k \in CallIds :
       (calls[k].delivered.kind = "failure"
          /\ calls[k].delivered.found = "PENDING") =>
         /\ Failed(calls[k].f)
         /\ calls[k].f.result = NoValue
         /\ calls[k].f.exception.code = calls[k].delivered.status.code
         /\ Contains(calls[k].f.exception.text,
                     calls[k].delivered.status.message)

\* a synchronous call has raised and an asynchronous call has failed
C5_Witness ==
  /\ lastSync.outcome.kind = "throw"
  /\ lastSync.outcome.status.code = "UNAVAILABLE"
  /\ \E k \in CallIds :
       /\ calls[k].delivered.kind = "failure"
       /\ calls[k].delivered.found = "PENDING"
       /\ calls[k].delivered.status.code = "INTERNAL"

\* C6: the lookups of a name that one caller makes one after the other on a
\* connection all return the same handler: one handler is built for the
\* name, it is the one stored, and every lookup returned it.
C6_HandlerStable ==
  \A c \in ClientIds, n \in AttrNames :
    /\ Cardinality(Built(c, n)) <= 1
    /\ Cardinality(returned[c][n]) <= 1
    /\ \A r \in returned[c][n] :
         r.kind = "handler" => (r.id \in Built(c, n) /\ attrs[c][n] = r.id)

\* a lookup found the stored handler: the thread holds a handler it did not
\* build, and the other name has its own handler
C6_Witness ==
  /\ threads[1].pc = "holding"
  /\ threads[1].res.kind = "handler"
  /\ threads[1].func = 0
  /\ threads[1].name = "add"
  /\ attrs[1]["sub"] # 0

\* C7: a connection constructed with call_timeout None or zero hands the
\* transport the maximum timestamp as the deadline of every call.
NoTimeoutGiven(c) == ~ Truthy(clients[c]._init_args[3])

C7_InfiniteDeadline ==
  /\ (lastSync.client # 0 /\ NoTimeoutGiven(lastSync.client)) =>
       lastSync.request.deadline = MaxTimestamp
  /\ \A k \in UsedCalls :
       NoTimeoutGiven(calls[k].client) =>
         calls[k].request.deadline = MaxTimestamp

\* both kinds of call were made on a connection given a zero timeout, after
\* the clock advanced
C7_Witness ==
  /\ now > 0
  /\ clients[1]._init_args[3] = [kind |-> "timedelta", v |-> 0]
  /\ lastSync.client = 1
  /\ calls[1].pc = "returned"

\* C8: for a timeout t > 0 and an inherited deadline d (none counts as the
\* maximum timestamp), the deadline computed with propagate_deadline set is
\* min(now + t, d).
Inherited(d) == IF d.kind = None THEN MaxTimestamp ELSE d.v

C8_MinOfBoth ==
  (probe.done /\ Truthy(probe.timeout) /\ probe.propagate_deadline) =>
    probe.deadline = Min(probe.at + probe.timeout.v, Inherited(probe.inherited))

\* C9: a connection reconstructed from what __reduce__ returns has the
\* address and every call option of the original, and its own handle.
Equivalent(o, d) ==
  /\ d._address = o._address
  /\ d._compress = o._compress
  /\ d._call_timeout = o._call_timeout
  /\ d._wait_for_ready = o._wait_for_ready
  /\ d._chunk_tensors = o._chunk_tensors
  /\ transports[d._client].load_balancing_policy
       = transports[o._client].load_balancing_policy
  /\ d._propagate_deadline = o._propagate_deadline
  /\ d._async_client._propagate_deadline = o._async_client._propagate_deadline
  /\ d._client # o._client

C9_ReconstructEquivalent ==
  \A d \in ClientIds :
    (clients[d].exists /\ clients[d].copyOf # 0) =>
      Equivalent(clients[clients[d].copyOf], clients[d])

\* C10: Shutdown has been invoked on a connection's handle never while the
\* connection lives and exactly once when it has been destroyed.
C10_ShutdownOnce ==
  \A c \in ClientIds :
    clients[c].exists =>
      transports[clients[c]._client].shutdowns
        = (IF clients[c].alive THEN 0 ELSE 1)

\* a connection was used and destroyed while its copy lives
C10_Witness ==
  /\ clients[1].exists /\ ~ clients[1].alive
  /\ lastSync.client = 1
  /\ clients[2].exists /\ clients[2].alive

\* C11: a direct call the transport fails with status (C, M) raises a
\* translated error with code C and text containing M, the very error a call
\* of a named method raises for that status.
C11_DirectLikeNamed ==
  (lastSync.name = "__call__" /\ lastSync.outcome.kind = "throw") =>
    /\ lastSync.result.kind = "raise"
    /\ lastSync.result.error.type = "StatusNotOk"
    /\ lastSync.result.error.code = lastSync.outcome.status.code
    /\ Contains(lastSync.result.error.text, lastSync.outcome.status.message)
    /\ lastSync.result.cause = "StatusThrown"

\* C12: an attribute-style invocation of a name the server exposes dispatches
\* a request carrying that name and the caller's arguments.
C12_NameDispatched ==
  lastSync.name \in AttrNames =>
    /\ lastSync.request.method = lastSync.name
    /\ lastSync.request.args = lastSync.in.args
    /\ lastSync.request.kwargs = lastSync.in.kwargs

\* C13: the direct calls made on a connection all use one handler: at most
\* one handler is ever built for the entry method of a connection.
C13_DirectHandlerReused ==
  \A c \in ClientIds : Cardinality(Built(c, "__call__")) <= 1

\* no thread is inside Client.__getattr__ for name n of client c
Quiescent(c, n) ==
  \A t \in ThreadIds :
    ~ (threads[t].pc \in {"getattr", "built"}
         /\ threads[t].client = c /\ threads[t].name = n)

\* C14: threads racing on the first lookup of a name may build several
\* handlers, but once their lookups have finished the connection holds one
\* handler for the name, built for that connection and that name; from then
\* on the stored handler does not change and every lookup returns it; and a
\* lookup stores a handler under its own name only.
C14_CacheNotCorrupted ==
  /\ [](\A c \in ClientIds, n \in MethodNames :
          (Quiescent(c, n) /\ Built(c, n) # {}) => attrs[c][n] \in Built(c, n))
  /\ [][\A c \in ClientIds, n \in MethodNames :
          /\ (Quiescent(c, n) /\ attrs[c][n] # 0) =>
               /\ attrs'[c][n] = attrs[c][n]
               /\ \A t \in ThreadIds :
                    (threads[t].pc = "idle" /\ threads'[t].client = c
                       /\ threads'[t].name = n) =>
                      (threads'[t].pc = "holding"
                         /\ threads'[t].res = HandlerRes(attrs[c][n]))
          /\ attrs'[c][n] # attrs[c][n] =>
               \E t \in ThreadIds :
                 /\ threads[t].pc = "built"
                 /\ threads[t].client = c /\ threads[t].name = n
                 /\ attrs'[c][n] = threads[t].func]_vars

\* two threads each built a handler for "add"; both lookups have finished, a
\* later lookup found the stored handler, and "sub" holds its own handler
C14_Witness ==
  /\ Cardinality(Built(1, "add")) = 2
  /\ Quiescent(1, "add")
  /\ attrs[1]["sub"] \in Built(1, "sub")
  /\ \E t \in ThreadIds :
       /\ threads[t].pc = "holding" /\ threads[t].name = "add"
       /\ threads[t].func = 0
       /\ threads[t].res = HandlerRes(attrs[1]["add"])

\* the deadline of a call made at time t on a connection given call_timeout
Expected(call_timeout, t) ==
  IF call_timeout.kind # None /\ call_timeout.v > 0
  THEN Min(MaxTimestamp, t + call_timeout.v)
  ELSE MaxTimestamp

\* a request carries the options given when connection c was constructed
\* and the deadline of a call made at time t
CarriesOptions(r, c, t) ==
  LET g == clients[c].given
  IN  /\ r.wait_for_ready = g.wait_for_ready
      /\ r.compress = g.compress
      /\ r.chunk_tensors = g.chunk_tensors
      /\ r.deadline = Expected(g.call_timeout, t)

\* C15: the requests of the synchronous and of the asynchronous path carry
\* the options given at construction and a deadline computed from the given
\* timeout, whatever came before; so a synchronous and an asynchronous call
\* of one method with the same arguments, made at the same time on one
\* connection, hand the transport the same request.
C15_SameRequest ==
  /\ lastSync.handler # 0 =>
       CarriesOptions(lastSync.request, lastSync.client, lastSync.at)
  /\ \A k \in UsedCalls :
       /\ CarriesOptions(calls[k].request, calls[k].client, calls[k].at)
       /\ (/\ lastSync.handler # 0
           /\ lastSync.client = calls[k].client
           /\ lastSync.request.method = calls[k].request.method
           /\ lastSync.in.args = calls[k].request.args
           /\ lastSync.in.kwargs = calls[k].request.kwargs
           /\ lastSync.at = calls[k].at) =>
            lastSync.request = calls[k].request

\* on a connection constructed with every option off its default, an
\* asynchronous call was made and cancelled, the clock advanced, and a
\* synchronous call of the same method followed a lookup of another name
C15_Witness ==
  /\ clients[1].given.compress /\ clients[1].given.chunk_tensors
  /\ ~ clients[1].given.wait_for_ready
  /\ Truthy(clients[1].given.call_timeout)
  /\ calls[1].cancelRet = "True" /\ calls[1].at = 0
  /\ attrs[1]["sub"] # 0
  /\ lastSync.name = "add" /\ lastSync.at = 1
  /\ lastSync.request.deadline # calls[1].request.deadline

\* C16: once the transport's callback for a call has run, the call's future
\* is terminal: fulfilled or failed with what the callback delivered when it
\* found the future pending, and otherwise in the state the callback found.
C16_CallbackSettles ==
  \A k \in CallIds :
    calls[k].fired =>
      LET d == calls[k].delivered
          f == calls[k].f
      IN  /\ Terminal(f)
          /\ (d.found = "PENDING" /\ d.kind = "success") =>
               Outcome(f) = <<"FINISHED", d.value, NoError>>
          /\ (d.found = "PENDING" /\ d.kind = "failure") =>
               Outcome(f) = <<"FINISHED", NoValue, translate_status(d.status)>>
          /\ d.found # "PENDING" => f.state = d.found

\* one call's failure callback found its future pending and has returned;
\* the other call's callback found its future cancelled
C16_Witness ==
  \E j, k \in CallIds :
    /\ calls[j].fired /\ calls[j].cb = "idle"
    /\ calls[j].delivered.kind = "failure"
    /\ calls[j].delivered.found = "PENDING"
    /\ calls[k].fired /\ calls[k].delivered.found = "CANCELLED"

\* C18: Cancel is invoked on a call's token at most once, and only for a
\* call whose future is cancelled: never for a future that was fulfilled or
\* failed, however often the caller cancels and also when the callback ran
\* before the call primitive returned.
C18_CancelAtMostOnce ==
  \A k \in CallIds :
    /\ tokens[k] <= 1
    /\ tokens[k] = 1 =>
         \E j \in UsedCalls : calls[j].canceller = k /\ cancelled(calls[j].f)
    /\ \A j \in UsedCalls :
         (calls[j].canceller = k /\ calls[j].f.state = "FINISHED") =>
           tokens[k] = 0

\* one call was cancelled twice and its callback ran afterwards; the other
\* call's callback ran before its done-callback was added, and the caller
\* then tried to cancel it
C18_Witness ==
  \E j, k \in CallIds :
    /\ calls[j].recancelled /\ calls[j].cancelRet = "True" /\ calls[j].fired
    /\ tokens[calls[j].canceller] = 1
    /\ calls[k].pc = "returned" /\ calls[k].f.state = "FINISHED"
    /\ calls[k].f.done_callbacks = <<>>
    /\ calls[k].cancelRet = "False"

\* C19: a step of any thread changes the record of one call at most, and a
\* step that invokes Cancel on a token is a step of the call that token was
\* returned for; the futures and tokens of all other calls are unchanged.
C19_CallsIsolated ==
  [][/\ \A j, k \in CallIds :
          (calls'[j] # calls[j] /\ calls'[k] # calls[k]) => j = k
     /\ \A i \in CallIds :
          tokens'[i] # tokens[i] =>
            \E k \in UsedCalls :
              /\ calls[k].canceller = i
              /\ calls'[k] # calls[k]
              /\ \A j \in UsedCalls \ {k} :
                   /\ calls'[j].f = calls[j].f
                   /\ tokens'[calls[j].canceller] = tokens[calls[j].canceller]
    ]_vars

\* two calls of the same method: one cancelled, with Cancel forwarded to its
\* token, the other fulfilled afterwards with its token untouched
C19_Witness ==
  /\ UsedCalls = {1, 2}
  /\ calls[1].request.method = calls[2].request.method
  /\ cancelled(calls[1].f) /\ tokens[calls[1].canceller] = 1
  /\ Fulfilled(calls[2].f) /\ tokens[calls[2].canceller] = 0
  /\ calls[2].cb = "idle"

\* C17: every call primitive is invoked on a handle on which Shutdown has
\* not been invoked, also when the call is made through the asynchronous
\* client of a connection that has been destroyed since.
C17_NoCallAfterShutdown ==
  /\ lastSync.handler # 0 => lastSync.shut = 0
  /\ \A k \in UsedCalls : calls[k].shut = 0

====
